---- MODULE Spec2Model ----
(***************************************************************************)
(* A model of game/ship.py: BaseShip (cooldown checks, collision response  *)
(* in update) and HumanShip (keyboard and repeat-timer event handling).    *)
(*                                                                         *)
(* Units.  Time is counted in ticks of pygame.time.get_ticks().  Angles    *)
(* are counted in steps of 22.5 degrees, so "ang -= 22.5" is ang - 1 and   *)
(* "ang %= 360" is ang % 16.  Velocities and positions are counted in      *)
(* 1/VelUnit of a pixel, so that the 0.2/0.75 blend of update is exact.    *)
(***************************************************************************)
EXTENDS Integers, Sequences, FiniteSets, TLC

\* ---------------------------------------------------------------- bounds
MaxTick == 5
MaxQueue == 3
MaxSpeed == 2
AngSlack == 2
MaxPass == 1

\* ------------------------------------------------- constants of game.conf
MAX_TORPEDOES_PER_SHIP == 2
MOVEMENT_TIME_DELAY_MS == 1
PHASER_FIRE_CD == 2
TORPEDO_FIRE_CD == 1

\* --------------------------------------------------- constants of pygame
KEYDOWN == 768
KEYUP == 769
USEREVENT == 32768
None == -1

K_a == "a"
K_d == "d"
K_s == "s"
K_q == "q"
K_e == "e"
NoKey == "-"

Keys == {K_a, K_d, K_s, K_q, K_e}
RotateKeys == {K_a, K_d}
ThrustKeys == {K_s}
FireKeys == {K_q, K_e}

Ships == {1, 2}
\* the ship the player controls: the first of the group
Human == CHOOSE s \in Ships : \A o \in Ships : s <= o
SHIP == "SHIP"
TORPEDO == "TORPEDO"
PHASER == "PHASER"
Weapons == {"phaser", "torpedo"}

\* 22.5 degrees, 360 degrees, in angle steps
ROT_STEP == 1
FULL_TURN == 16

\* one pixel (per frame), in velocity units: a collision response divides by
\* 20 and an update pass holds at most two of them, so every blend is exact
VelUnit == 20 ^ (2 * MaxPass)

VARIABLES
    now,        \* pygame.time.get_ticks()
    ships,      \* the ship objects, by index in the sprite group
    timers,     \* pygame.time.set_timer's table: event type -> period, time left
    queue,      \* pygame's event queue
    held,       \* keys physically held by the player
    down,       \* per ship: keys whose KEYDOWN it handled, KEYUP not yet, oldest first
    handled,    \* the event the last step passed to handle_events, or NoEvent
    created,    \* per ship: weapons that created a projectile in the last step
    turn,       \* index of the next sprite to update in the running update pass
    passes,     \* update passes finished
    start,      \* the ships as they were when the running update pass began
    overlap,    \* per ship: what check_overlapping_sprites returned in its last update
    torp        \* a torpedo sprite that is in the group the ships are updated against

vars == <<now, ships, timers, queue, held, down, handled, created, turn, passes,
          start, overlap, torp>>

inputVars == <<now, timers, queue, held, down, handled, created>>
updateVars == <<turn, passes, start, overlap>>

\* ---------------------------------------------------------------- events
KeyEvent(type, key) == [type |-> type, key |-> key]
UserEvent(type) == [type |-> type, key |-> NoKey]
NoEvent == [type |-> 0, key |-> NoKey]

\* HumanShip.__init__: the five repeat events of a ship
rotate_cc_repeat_event(sh) == USEREVENT + sh.player_id + 1
rotate_cw_repeat_event(sh) == USEREVENT + sh.player_id + 2
acc_repeat_event(sh) == USEREVENT + sh.player_id + 3
fire_torpedoes_repeat_event(sh) == USEREVENT + sh.player_id + 4
fire_phaser_repeat_event(sh) == USEREVENT + sh.player_id + 5

\* the event types the ships of Ships (player ids 1, 2) can arm
TimerIds == (USEREVENT + 2) .. (USEREVENT + 7)

\* pygame.time.set_timer(event, millis): millis = 0 stops the timer; events
\* already posted stay in the queue
SetTimer(tm, e, ms) == [tm EXCEPT ![e] = [period |-> ms, left |-> ms]]

Armed(tm, e) == tm[e].period > 0

\* ------------------------------------------------------ sprite groups
\* pygame.sprite.Group.add of a new sprite; a group is modelled by its size
GroupAdd(g) == g + 1

\* pygame.sprite.GroupSingle.add: the new sprite replaces the one held
\* variant of GroupSingleAdd that keeps the sprite already in the group
GroupSingleAdd_Keeps(g) == g + 1

\* GroupSingle.add: the new sprite replaces the one the group held
GroupSingleAdd(g) == 1

\* ------------------------------------------------------ trigonometry
\* 400 * math.cos(k * 22.5 degrees), rounded to the nearest integer
CosTab == <<400, 370, 283, 153, 0, -153, -283, -370,
            -400, -370, -283, -153, 0, 153, 283, 370>>

\* math.cos(ang * math.pi / 180) in velocity units (VelUnit is a multiple of 400)
Cos(ang) == CosTab[(ang % FULL_TURN) + 1] * (VelUnit \div 400)
Sin(ang) == Cos(ang - 4)

\* ---------------------------------------------------------- BaseShip
BaseShipInit(pid, is_human, start_pos, start_ang) ==
    [ player_id |-> pid,
      human |-> is_human,
      alive |-> TRUE,
      entity_type |-> SHIP,
      pos |-> start_pos,
      rect |-> start_pos,
      vel |-> <<0, 0>>,
      ang |-> start_ang,
      rotate_ccw_lock |-> FALSE,
      torpedo_group |-> 0,
      phaser_group |-> 0,
      phaser_last_fired |-> None,
      torpedo_last_fired |-> None,
      last_collided_ship |-> None ]

\* "not x" of Python for x a tick or None
Falsy(x) == x = None \/ x = 0

check_phaser_on_cooldown(sh, t) ==
    IF Falsy(sh.phaser_last_fired) THEN FALSE
    ELSE IF t - sh.phaser_last_fired > PHASER_FIRE_CD THEN FALSE
    ELSE TRUE

\* variant of check_torpedo_on_cooldown that measures against the phaser cooldown
check_torpedo_on_cooldown_PhaserCd(sh, t) ==
    IF Falsy(sh.torpedo_last_fired) THEN FALSE
    ELSE IF t - sh.torpedo_last_fired > PHASER_FIRE_CD THEN FALSE
    ELSE TRUE

check_torpedo_on_cooldown(sh, t) ==
    IF Falsy(sh.torpedo_last_fired) THEN FALSE
    ELSE IF t - sh.torpedo_last_fired > TORPEDO_FIRE_CD THEN FALSE
    ELSE TRUE

\* --------------------------------------------------------- HumanShip
\* A handler context: the ship, the timer table, the weapons that created a
\* projectile, and the keys the ship has seen go down.
Ctx(sh, tm, cr, dn) == [sh |-> sh, tm |-> tm, cr |-> cr, dn |-> dn]

\* x_vel += cos(ang), y_vel += sin(ang)
Thrust(sh) ==
    [sh EXCEPT !.vel = <<sh.vel[1] + Cos(sh.ang), sh.vel[2] + Sin(sh.ang)>>]

\* Every "if" of a handler is an operator from context to context; a handler
\* is their composition in the order of the source.

\* _handle_movement_events, KEYDOWN of K_a
RotateCcKeyDown(c, ev) ==
    IF ev.type = KEYDOWN /\ ev.key = K_a
    THEN [c EXCEPT !.sh.rotate_ccw_lock = TRUE,
                   !.sh.ang = c.sh.ang - ROT_STEP,
                   !.tm = SetTimer(c.tm, rotate_cc_repeat_event(c.sh),
                                   MOVEMENT_TIME_DELAY_MS)]
    ELSE c

\* _handle_movement_events, KEYDOWN of K_d
RotateCwKeyDown(c, ev) ==
    IF ev.type = KEYDOWN /\ ev.key = K_d
    THEN [c EXCEPT !.sh.rotate_ccw_lock = FALSE,
                   !.sh.ang = c.sh.ang + ROT_STEP,
                   !.tm = SetTimer(c.tm, rotate_cw_repeat_event(c.sh),
                                   MOVEMENT_TIME_DELAY_MS)]
    ELSE c

\* variant of AccKeyDown that arms the timer and leaves the thrust to the timer
AccKeyDown_NoThrust(c, ev) ==
    IF ev.type = KEYDOWN /\ ev.key = K_s
    THEN [c EXCEPT !.tm = SetTimer(c.tm, acc_repeat_event(c.sh),
                                   MOVEMENT_TIME_DELAY_MS)]
    ELSE c

\* _handle_movement_events, KEYDOWN of K_s
AccKeyDown(c, ev) ==
    IF ev.type = KEYDOWN /\ ev.key = K_s
    THEN [c EXCEPT !.sh = Thrust(c.sh),
                   !.tm = SetTimer(c.tm, acc_repeat_event(c.sh),
                                   MOVEMENT_TIME_DELAY_MS)]
    ELSE c

\* _handle_movement_events, KEYUP of K_a
RotateCcKeyUp(c, ev) ==
    IF ev.type = KEYUP /\ ev.key = K_a
    THEN [c EXCEPT !.sh.rotate_ccw_lock = FALSE,
                   !.tm = SetTimer(c.tm, rotate_cc_repeat_event(c.sh), 0)]
    ELSE c

\* variant of RotateCwKeyUp that clears the lock as the key-up of K_a does
RotateCwKeyUp_LockCleared(c, ev) ==
    IF ev.type = KEYUP /\ ev.key = K_d
    THEN [c EXCEPT !.sh.rotate_ccw_lock = FALSE,
                   !.tm = SetTimer(c.tm, rotate_cw_repeat_event(c.sh), 0)]
    ELSE c

\* _handle_movement_events, KEYUP of K_d
RotateCwKeyUp(c, ev) ==
    IF ev.type = KEYUP /\ ev.key = K_d
    THEN [c EXCEPT !.sh.rotate_ccw_lock = TRUE,
                   !.tm = SetTimer(c.tm, rotate_cw_repeat_event(c.sh), 0)]
    ELSE c

\* _handle_movement_events, KEYUP of K_s
AccKeyUp(c, ev) ==
    IF ev.type = KEYUP /\ ev.key = K_s
    THEN [c EXCEPT !.tm = SetTimer(c.tm, acc_repeat_event(c.sh), 0)]
    ELSE c

\* _handle_movement_events, event.type == self.rotate_cc_repeat_event
RotateCcRepeat(c, ev) ==
    IF ev.type = rotate_cc_repeat_event(c.sh)
    THEN [c EXCEPT !.sh.ang =
             (IF c.sh.rotate_ccw_lock THEN c.sh.ang - ROT_STEP ELSE c.sh.ang) % FULL_TURN]
    ELSE c

\* _handle_movement_events, event.type == self.rotate_cw_repeat_event
RotateCwRepeat(c, ev) ==
    IF ev.type = rotate_cw_repeat_event(c.sh)
    THEN [c EXCEPT !.sh.ang =
             (IF ~c.sh.rotate_ccw_lock THEN c.sh.ang + ROT_STEP ELSE c.sh.ang) % FULL_TURN]
    ELSE c

\* _handle_movement_events, event.type == self.acc_repeat_event
AccRepeat(c, ev) ==
    IF ev.type = acc_repeat_event(c.sh)
    THEN [c EXCEPT !.sh = Thrust(c.sh)]
    ELSE c

_handle_movement_events(c, ev) ==
    AccRepeat(RotateCwRepeat(RotateCcRepeat(
        AccKeyUp(RotateCwKeyUp(RotateCcKeyUp(
            AccKeyDown(RotateCwKeyDown(RotateCcKeyDown(c, ev), ev), ev),
        ev), ev), ev),
    ev), ev), ev)

\* self.phaser = Phaser(...); phaser_group.add; phaser_last_fired = get_ticks()
FirePhaser(c, t) ==
    [c EXCEPT !.sh.phaser_group = GroupSingleAdd(c.sh.phaser_group),
              !.sh.phaser_last_fired = t,
              !.cr = c.cr \cup {"phaser"}]

\* torpedo_group.add(PhotonTorpedo(...)); torpedo_last_fired = get_ticks()
FireTorpedo(c, t) ==
    [c EXCEPT !.sh.torpedo_group = GroupAdd(c.sh.torpedo_group),
              !.sh.torpedo_last_fired = t,
              !.cr = c.cr \cup {"torpedo"}]

\* the timer table after set_timer(self.fire_phaser_repeat_event, ms)
PhaserTimer(c, ms) == [c EXCEPT !.tm = SetTimer(c.tm, fire_phaser_repeat_event(c.sh), ms)]

\* the timer table after set_timer(self.fire_torpedoes_repeat_event, ms)
TorpedoTimer(c, ms) ==
    [c EXCEPT !.tm = SetTimer(c.tm, fire_torpedoes_repeat_event(c.sh), ms)]

\* variant of PhaserKeyDown that fires only when neither weapon is on cooldown
PhaserKeyDown_SharedCooldown(c, ev, t) ==
    IF ev.type = KEYDOWN /\ ev.key = K_q
    THEN IF ~check_phaser_on_cooldown(c.sh, t) /\ ~check_torpedo_on_cooldown(c.sh, t)
         THEN FirePhaser(PhaserTimer(c, PHASER_FIRE_CD), t)
         ELSE PhaserTimer(c, PHASER_FIRE_CD)
    ELSE c

\* _handle_firing_weapon_events, KEYDOWN of K_q
PhaserKeyDown(c, ev, t) ==
    IF ev.type = KEYDOWN /\ ev.key = K_q
    THEN IF ~check_phaser_on_cooldown(c.sh, t)
         THEN FirePhaser(PhaserTimer(c, PHASER_FIRE_CD), t)
         ELSE PhaserTimer(c, PHASER_FIRE_CD)
    ELSE c

\* variant of TorpedoKeyDown that stamps torpedo_last_fired before testing the cap
TorpedoKeyDown_StampsAtCap(c, ev, t) ==
    IF ev.type = KEYDOWN /\ ev.key = K_e
    THEN IF ~check_torpedo_on_cooldown(c.sh, t)
         THEN IF c.sh.torpedo_group < MAX_TORPEDOES_PER_SHIP
              THEN FireTorpedo(TorpedoTimer(c, TORPEDO_FIRE_CD), t)
              ELSE [TorpedoTimer(c, TORPEDO_FIRE_CD) EXCEPT !.sh.torpedo_last_fired = t]
         ELSE TorpedoTimer(c, TORPEDO_FIRE_CD)
    ELSE c

\* _handle_firing_weapon_events, KEYDOWN of K_e
TorpedoKeyDown(c, ev, t) ==
    IF ev.type = KEYDOWN /\ ev.key = K_e
    THEN IF /\ c.sh.torpedo_group < MAX_TORPEDOES_PER_SHIP
            /\ ~check_torpedo_on_cooldown(c.sh, t)
         THEN FireTorpedo(TorpedoTimer(c, TORPEDO_FIRE_CD), t)
         ELSE TorpedoTimer(c, TORPEDO_FIRE_CD)
    ELSE c

\* _handle_firing_weapon_events, KEYUP of K_q
PhaserKeyUp(c, ev) ==
    IF ev.type = KEYUP /\ ev.key = K_q THEN PhaserTimer(c, 0) ELSE c

\* _handle_firing_weapon_events, KEYUP of K_e
TorpedoKeyUp(c, ev) ==
    IF ev.type = KEYUP /\ ev.key = K_e THEN TorpedoTimer(c, 0) ELSE c

\* _handle_firing_weapon_events, event.type == self.fire_phaser_repeat_event
PhaserRepeat(c, ev, t) ==
    IF ev.type = fire_phaser_repeat_event(c.sh) THEN FirePhaser(c, t) ELSE c

\* TorpedoRepeat with the cap compared by <= instead of <
TorpedoRepeat_CapOffByOne(c, ev, t) ==
    IF ev.type = fire_torpedoes_repeat_event(c.sh)
    THEN IF c.sh.torpedo_group <= MAX_TORPEDOES_PER_SHIP THEN FireTorpedo(c, t) ELSE c
    ELSE c

\* _handle_firing_weapon_events, event.type == self.fire_torpedoes_repeat_event
TorpedoRepeat(c, ev, t) ==
    IF ev.type = fire_torpedoes_repeat_event(c.sh)
    THEN IF c.sh.torpedo_group < MAX_TORPEDOES_PER_SHIP THEN FireTorpedo(c, t) ELSE c
    ELSE c

_handle_firing_weapon_events(c, ev, t) ==
    TorpedoRepeat(PhaserRepeat(
        TorpedoKeyUp(PhaserKeyUp(
            TorpedoKeyDown(PhaserKeyDown(c, ev, t), ev, t),
        ev), ev),
    ev, t), ev, t)

\* The keys a ship has seen go down and not yet up, in the order they went
\* down (an observer of the handler, not a field of the ship)
Without(dn, k) == SelectSeq(dn, LAMBDA x : x # k)

KeysDown(dn, ev) ==
    IF ev.type = KEYDOWN THEN Append(Without(dn, ev.key), ev.key)
    ELSE IF ev.type = KEYUP THEN Without(dn, ev.key)
    ELSE dn

IsDown(dn, k) == \E i \in 1..Len(dn) : dn[i] = k

\* the keys of the context c brought up to date with event ev
Observe(c, ev) == [c EXCEPT !.dn = KeysDown(c.dn, ev)]

\* variant of handle_events without the test of alive()
handle_events_NoAliveTest(c, ev, t) ==
    Observe(_handle_firing_weapon_events(_handle_movement_events(c, ev), ev, t), ev)

handle_events(c, ev, t) ==
    IF ~c.sh.alive THEN c
    ELSE Observe(_handle_firing_weapon_events(_handle_movement_events(c, ev), ev, t), ev)

\* ------------------------------------------------------ BaseShip.update
\* SpaceEntity.update: the entity moves by its velocity and its rectangle
\* follows its position
SpaceEntityUpdate(e) ==
    LET p == <<e.pos[1] + e.vel[1], e.pos[2] + e.vel[2]>>
    IN  [e EXCEPT !.pos = p, !.rect = p]

\* half the side of a sprite's rectangle (the rectangle is centred on rect)
HalfSide == VelUnit

\* pygame.Rect.colliderect: the rectangles share area (touching edges do not)
colliderect(a, b) ==
    LET dx == a.rect[1] - b.rect[1]
        dy == a.rect[2] - b.rect[2]
    IN  /\ dx < 2 * HalfSide /\ -dx < 2 * HalfSide
        /\ dy < 2 * HalfSide /\ -dy < 2 * HalfSide

\* (own * 0.2) + (other * 0.75), on one axis
Blend(own, other) == ((4 * own) + (15 * other)) \div 20

\* CollisionResponse with the other ship moved by the velocity it had before
\* the blend
CollisionResponse_NudgeOldVel(g, i, j, t, ov) ==
    LET self_vel == g[i].vel
        other_vel == g[j].vel
        new_self_vel == <<Blend(self_vel[1], other_vel[1]),
                          Blend(self_vel[2], other_vel[2])>>
        new_other_vel == <<Blend(other_vel[1], self_vel[1]),
                           Blend(other_vel[2], self_vel[2])>>
        g1 == [g EXCEPT ![i].vel = new_self_vel,
                        ![j].vel = new_other_vel,
                        ![i].last_collided_ship = t]
        g2 == IF ov[1]
              THEN [g1 EXCEPT ![j].pos = <<g1[j].pos[1] + other_vel[1], g1[j].pos[2]>>]
              ELSE g1
        g3 == IF ov[2]
              THEN [g2 EXCEPT ![j].pos = <<g2[j].pos[1], g2[j].pos[2] + other_vel[2]>>]
              ELSE g2
    IN  g3

\* CollisionResponse with the other ship's velocity blended from this ship's
\* new velocity instead of the one it had before the response
CollisionResponse_Sequential(g, i, j, t, ov) ==
    LET self_vel == g[i].vel
        other_vel == g[j].vel
        new_self_vel == <<Blend(self_vel[1], other_vel[1]),
                          Blend(self_vel[2], other_vel[2])>>
        new_other_vel == <<Blend(other_vel[1], new_self_vel[1]),
                           Blend(other_vel[2], new_self_vel[2])>>
        g1 == [g EXCEPT ![i].vel = new_self_vel,
                        ![j].vel = new_other_vel,
                        ![i].last_collided_ship = t]
        g2 == IF ov[1]
              THEN [g1 EXCEPT ![j].pos = <<g1[j].pos[1] + g1[j].vel[1], g1[j].pos[2]>>]
              ELSE g1
        g3 == IF ov[2]
              THEN [g2 EXCEPT ![j].pos = <<g2[j].pos[1], g2[j].pos[2] + g2[j].vel[2]>>]
              ELSE g2
    IN  g3

\* update, the body of the if: g is the sprite group (index -> sprite), i the
\* ship whose update runs, j the sprite it meets, t get_ticks(), ov what
\* check_overlapping_sprites(self, sprite) returns
CollisionResponse(g, i, j, t, ov) ==
    LET self_vel == g[i].vel
        other_vel == g[j].vel
        new_self_vel == <<Blend(self_vel[1], other_vel[1]),
                          Blend(self_vel[2], other_vel[2])>>
        new_other_vel == <<Blend(other_vel[1], self_vel[1]),
                           Blend(other_vel[2], self_vel[2])>>
        g1 == [g EXCEPT ![i].vel = new_self_vel,
                        ![j].vel = new_other_vel,
                        ![i].last_collided_ship = t]
        g2 == IF ov[1]
              THEN [g1 EXCEPT ![j].pos = <<g1[j].pos[1] + g1[j].vel[1], g1[j].pos[2]>>]
              ELSE g1
        g3 == IF ov[2]
              THEN [g2 EXCEPT ![j].pos = <<g2[j].pos[1], g2[j].pos[2] + g2[j].vel[2]>>]
              ELSE g2
    IN  g3

\* variant of Collides that responds to a sprite of any entity type
Collides_AnyType(g, i, j) ==
    /\ j # i
    /\ colliderect(g[i], g[j])

\* update, the condition of the if
Collides(g, i, j) ==
    /\ j # i
    /\ colliderect(g[i], g[j])
    /\ g[j].entity_type = SHIP

\* update, the for loop from sprite k on (the group is indexed 1..Len(g))
RECURSIVE CollisionLoop(_, _, _, _, _)
CollisionLoop(g, i, k, t, ov) ==
    IF k > Len(g) THEN g
    ELSE CollisionLoop(IF Collides(g, i, k) THEN CollisionResponse(g, i, k, t, ov) ELSE g,
                       i, k + 1, t, ov)

\* BaseShip.update of the sprite at index i of group g
BaseShipUpdate(g, i, t, ov) ==
    CollisionLoop([g EXCEPT ![i] = SpaceEntityUpdate(g[i])], i, 1, t, ov)

\* ------------------------------------------------------------ the game
NoTimer == [period |-> 0, left |-> 0]
NoCall == <<>>
NoneCreated == [s \in Ships |-> {}]

\* the sprite group the ships are updated against, in update order
TargetGroup(sh, tp) == <<sh[1], sh[2], tp>>

Torpedo(p, v) == [entity_type |-> TORPEDO, pos |-> p, rect |-> p, vel |-> v]

Px(x, y) == <<x * VelUnit, y * VelUnit>>

\* start headings tried by the thrust specification, in angle steps
StartAngs == {0, 3, 6, 13}

InitCommon ==
    /\ timers = [e \in TimerIds |-> NoTimer]
    /\ queue = <<>>
    /\ held = {}
    /\ down = [s \in Ships |-> <<>>]
    /\ handled = NoEvent
    /\ created = NoneCreated
    /\ turn = 1
    /\ passes = 0
    /\ overlap = [s \in Ships |-> NoCall]
    /\ torp = Torpedo(Px(0, 0), Px(1, 0))

\* the game as it starts: a human ship and a second ship, apart and at rest
InitAt(a, t) ==
    /\ InitCommon
    /\ now = t
    /\ ships = [s \in Ships |-> BaseShipInit(s, s = Human, Px(10 * (s - 1), 0), a)]
    /\ start = ships

\* heading 0, and tick 1: pygame.init() and the construction of the ships took time
Init == InitAt(0, 1)

\* ---- the host library and the player
\* a millisecond passes: every armed timer runs down; a timer that ran out
\* posts its event (Expire) before the next millisecond
Tick ==
    /\ now < MaxTick
    /\ \A e \in TimerIds : Armed(timers, e) => timers[e].left > 0
    /\ now' = now + 1
    /\ timers' = [e \in TimerIds |->
                    IF Armed(timers, e)
                    THEN [timers[e] EXCEPT !.left = timers[e].left - 1]
                    ELSE timers[e]]
    /\ handled' = NoEvent
    /\ created' = NoneCreated
    /\ UNCHANGED <<ships, queue, held, down, torp>>
    /\ UNCHANGED updateVars

\* the timer of event type e ran out: it posts e and starts over
Expire(e) ==
    /\ Armed(timers, e)
    /\ timers[e].left = 0
    /\ Len(queue) < MaxQueue
    /\ queue' = Append(queue, UserEvent(e))
    /\ timers' = [timers EXCEPT ![e].left = timers[e].period]
    /\ handled' = NoEvent
    /\ created' = NoneCreated
    /\ UNCHANGED <<now, ships, held, down, torp>>
    /\ UNCHANGED updateVars

\* the player presses key k
Press(k) ==
    /\ k \notin held
    /\ Len(queue) < MaxQueue
    /\ held' = held \cup {k}
    /\ queue' = Append(queue, KeyEvent(KEYDOWN, k))
    /\ handled' = NoEvent
    /\ created' = NoneCreated
    /\ UNCHANGED <<now, ships, timers, down, torp>>
    /\ UNCHANGED updateVars

\* the player releases key k
Release(k) ==
    /\ k \in held
    /\ Len(queue) < MaxQueue
    /\ held' = held \ {k}
    /\ queue' = Append(queue, KeyEvent(KEYUP, k))
    /\ handled' = NoEvent
    /\ created' = NoneCreated
    /\ UNCHANGED <<now, ships, timers, down, torp>>
    /\ UNCHANGED updateVars

\* the game after ship s handled an event with result c
Merge(r, s, c) ==
    [sh |-> [r.sh EXCEPT ![s] = c.sh], tm |-> c.tm,
     cr |-> [r.cr EXCEPT ![s] = c.cr], dn |-> [r.dn EXCEPT ![s] = c.dn]]

\* the event loop passes event ev to ship s, if it is a HumanShip
Dispatch(r, s, ev, t) ==
    IF r.sh[s].human
    THEN Merge(r, s, handle_events(Ctx(r.sh[s], r.tm, r.cr[s], r.dn[s]), ev, t))
    ELSE r

\* the event loop passes event ev to every ship, in group order
DispatchAll(sh, tm, dn, ev, t) ==
    Dispatch(Dispatch([sh |-> sh, tm |-> tm, cr |-> NoneCreated, dn |-> dn], 1, ev, t),
             2, ev, t)

\* the model follows a ship while its heading and speed are within the bounds
InBounds(sh) ==
    /\ sh.ang >= -AngSlack /\ sh.ang < FULL_TURN + AngSlack
    /\ sh.vel[1] <= MaxSpeed * VelUnit /\ -sh.vel[1] <= MaxSpeed * VelUnit
    /\ sh.vel[2] <= MaxSpeed * VelUnit /\ -sh.vel[2] <= MaxSpeed * VelUnit

\* the game takes on the result r of an event's handling
Delivered(r) ==
    /\ \A s \in Ships : InBounds(r.sh[s])
    /\ ships' = r.sh
    /\ timers' = r.tm
    /\ created' = r.cr
    /\ down' = r.dn

\* the event loop takes the next event off the queue: for event in pygame.event.get()
Handle ==
    /\ queue # <<>>
    /\ Delivered(DispatchAll(ships, timers, down, Head(queue), now))
    /\ handled' = Head(queue)
    /\ queue' = Tail(queue)
    /\ UNCHANGED <<now, held, torp>>
    /\ UNCHANGED updateVars

\* a torpedo of ship s ends its life and leaves the group (projectile code)
RemoveTorpedo(s) ==
    /\ ships[s].torpedo_group > 0
    /\ ships' = [ships EXCEPT ![s].torpedo_group = @ - 1]
    /\ handled' = NoEvent
    /\ created' = NoneCreated
    /\ UNCHANGED <<now, timers, queue, held, down, torp>>
    /\ UNCHANGED updateVars

\* the phaser of ship s ends its life and leaves the group (projectile code)
RemovePhaser(s) ==
    /\ ships[s].phaser_group > 0
    /\ ships' = [ships EXCEPT ![s].phaser_group = 0]
    /\ handled' = NoEvent
    /\ created' = NoneCreated
    /\ UNCHANGED <<now, timers, queue, held, down, torp>>
    /\ UNCHANGED updateVars

\* ship s is removed from every group (pygame.sprite.Sprite.kill): alive() is False
Kill(s) ==
    /\ ships[s].alive
    /\ ships' = [ships EXCEPT ![s].alive = FALSE]
    /\ handled' = NoEvent
    /\ created' = NoneCreated
    /\ UNCHANGED <<now, timers, queue, held, down, torp>>
    /\ UNCHANGED updateVars

\* ---- the update pass: group.update(target_group=group)
\* what update writes back: the ships of the group
ShipsOf(g) == [s \in Ships |-> g[s]]

\* the sprites of the group as update left them: the ships and the torpedo
Updated(g) ==
    /\ ships' = ShipsOf(g)
    /\ torp' = g[Len(g)]

\* whether the update of ship s meets a ship (the if of update holds for a sprite)
Meets(sh, tp, s) ==
    LET g == [TargetGroup(sh, tp) EXCEPT ![s] = SpaceEntityUpdate(sh[s])]
    IN  \E j \in 1..Len(g) : Collides(g, s, j)

\* one call of update on ship s, the next sprite of the running pass
UpdateShip(s) ==
    /\ turn = s
    /\ passes < MaxPass
    /\ \E ov \in BOOLEAN \X BOOLEAN :
          /\ Updated(BaseShipUpdate(TargetGroup(ships, torp), s, now, ov))
          /\ overlap' = [overlap EXCEPT ![s] = IF Meets(ships, torp, s) THEN ov ELSE NoCall]
    /\ start' = IF s = 1 THEN ships ELSE start
    /\ turn' = turn + 1
    /\ UNCHANGED passes
    /\ UNCHANGED inputVars

\* the pass is over; the next frame starts a new one
EndPass ==
    /\ turn = 3
    /\ turn' = 1
    /\ passes' = passes + 1
    /\ overlap' = [s \in Ships |-> NoCall]
    /\ UNCHANGED <<ships, start, torp>>
    /\ UNCHANGED inputVars

\* ------------------------------------------------------ specifications
\* the host library's part of every input specification
Host ==
    \/ Tick
    \/ \E e \in TimerIds : Expire(e)
    \/ Handle

\* the player uses the fire keys
NextFire ==
    \/ Host
    \/ \E k \in FireKeys : Press(k)
    \/ \E k \in FireKeys : Release(k)
    \/ RemoveTorpedo(Human)
    \/ RemovePhaser(Human)

SpecFire == Init /\ [][NextFire]_vars

\* the fire keys again, with the first events handled at tick 0: get_ticks()
\* is 0 in the first millisecond after pygame.init()
SpecEarly == InitAt(0, 0) /\ [][NextFire]_vars

\* the player uses the rotate keys
NextRotate ==
    \/ Host
    \/ \E k \in RotateKeys : Press(k)
    \/ \E k \in RotateKeys : Release(k)

SpecRotate == Init /\ [][NextRotate]_vars

\* the player uses the thrust key, from several start headings
NextThrust ==
    \/ Host
    \/ \E k \in ThrustKeys : Press(k)
    \/ \E k \in ThrustKeys : Release(k)

SpecThrust == (\E a \in StartAngs : InitAt(a, 1)) /\ [][NextThrust]_vars

\* the player turns the ship while it is at rest and then thrusts, one key at
\* a time, and the event loop handles each event before the next one arrives
NextMove ==
    \/ Handle
    \/ queue = <<>> /\ Tick
    \/ \E e \in TimerIds : queue = <<>> /\ Expire(e)
    \/ \E k \in RotateKeys :
          queue = <<>> /\ held = {} /\ ships[Human].vel = Px(0, 0) /\ Press(k)
    \/ \E k \in ThrustKeys : queue = <<>> /\ held = {} /\ Press(k)
    \/ \E k \in RotateKeys \cup ThrustKeys : queue = <<>> /\ Release(k)

SpecMove == Init /\ [][NextMove]_vars

\* the ship has not fired yet
Unfired(sh) == sh.phaser_last_fired = None /\ sh.torpedo_last_fired = None

\* the player turns the ship, then thrusts, then fires, one key at a time and
\* each event handled before the next; the ship is destroyed at some moment
\* and the player goes on using the keys
NextDead ==
    \/ Handle
    \/ Kill(Human)
    \/ queue = <<>> /\ Tick
    \/ \E e \in TimerIds : queue = <<>> /\ Expire(e)
    \/ \E k \in RotateKeys :
          /\ queue = <<>> /\ held = {}
          /\ ships[Human].vel = Px(0, 0) /\ Unfired(ships[Human])
          /\ Press(k)
    \/ \E k \in ThrustKeys :
          queue = <<>> /\ held = {} /\ Unfired(ships[Human]) /\ Press(k)
    \/ \E k \in FireKeys : queue = <<>> /\ held = {} /\ Press(k)
    \/ \E k \in Keys : queue = <<>> /\ Release(k)

SpecDead == Init /\ [][NextDead]_vars

\* two human ships, player ids 1 and 2, both passed every event; the player
\* uses the rotate-right key, each event handled before the next
InitPair ==
    /\ InitCommon
    /\ now = 1
    /\ ships = [s \in Ships |-> BaseShipInit(s, TRUE, Px(10 * (s - 1), 0), 0)]
    /\ start = ships

NextPair ==
    \/ Handle
    \/ queue = <<>> /\ Tick
    \/ \E e \in TimerIds : queue = <<>> /\ Expire(e)
    \/ queue = <<>> /\ Press(K_d)
    \/ queue = <<>> /\ Release(K_d)

SpecPair == InitPair /\ [][NextPair]_vars

\* two ships near each other, moving, and the update passes of the game loop
StartOffsets == {0, 1, 2}
StartSpeeds == {-1, 0, 1}

Moving(sh, v) == [sh EXCEPT !.vel = v]

InitCollide ==
    /\ InitCommon
    /\ now = 1
    /\ \E dx, dy \in StartOffsets : \E vx1, vy1, vx2, vy2 \in StartSpeeds :
          ships = [s \in Ships |->
                     IF s = Human
                     THEN Moving(BaseShipInit(s, TRUE, Px(0, 0), 0), Px(vx1, vy1))
                     ELSE Moving(BaseShipInit(s, FALSE, Px(dx, dy), 0), Px(vx2, vy2))]
    /\ start = ships

NextCollide ==
    \/ \E s \in Ships : UpdateShip(s)
    \/ EndPass

SpecCollide == InitCollide /\ [][NextCollide]_vars

\* the whole game
Next ==
    \/ Host
    \/ \E s \in Ships : Kill(s)
    \/ \E k \in Keys : Press(k)
    \/ \E k \in Keys : Release(k)
    \/ \E s \in Ships : RemoveTorpedo(s)
    \/ \E s \in Ships : RemovePhaser(s)
    \/ \E s \in Ships : UpdateShip(s)
    \/ EndPass

Spec == Init /\ [][Next]_vars

\* ------------------------------------------------------------ properties
\* a step in which the event loop passes the head of the queue to the ships
IsHandle == queue # <<>> /\ queue' = Tail(queue)

\* C1: whatever key-down, key-up and repeat events are handled and whatever
\* torpedoes are removed, the torpedo group of a ship never holds more than
\* MAX_TORPEDOES_PER_SHIP torpedoes.
C1_TorpedoCap ==
    \A s \in Ships : ships[s].torpedo_group <= MAX_TORPEDOES_PER_SHIP

\* a repeat event has just added the torpedo that fills the group
C1_Witness ==
    /\ handled.type = fire_torpedoes_repeat_event(ships[Human])
    /\ "torpedo" \in created[Human]
    /\ ships[Human].torpedo_group = MAX_TORPEDOES_PER_SHIP

\* C2: a weapon that created a projectile at tick T (its last-fired tick)
\* creates no further projectile at a tick earlier than T + its cooldown,
\* whichever event (key-down or repeat) creates it.
C2_CooldownBetweenFires ==
    [][\A s \in Ships :
         /\ ("phaser" \in created'[s] /\ ships[s].phaser_last_fired # None)
                => now' >= ships[s].phaser_last_fired + PHASER_FIRE_CD
         /\ ("torpedo" \in created'[s] /\ ships[s].torpedo_last_fired # None)
                => now' >= ships[s].torpedo_last_fired + TORPEDO_FIRE_CD]_vars

\* the repeat event of movement key k of ship sh
MoveRepeatEvent(sh, k) ==
    IF k = K_a THEN rotate_cc_repeat_event(sh)
    ELSE IF k = K_d THEN rotate_cw_repeat_event(sh)
    ELSE acc_repeat_event(sh)

\* the heading is the same angle before and after the step
SameHeading(s) == (ships'[s].ang - ships[s].ang) % FULL_TURN = 0

\* C3: once a ship has handled the key-up of a movement key (A, D, S), and
\* until it handles that key's next key-down, the key's repeat timer is not
\* armed and no repeat event of the key changes the heading (A, D) or the
\* velocity (S), whatever is handled in between.
C3_NoIncrementAfterKeyUp ==
    [][\A s \in Ships : \A k \in RotateKeys \cup ThrustKeys :
         (ships[s].human /\ ships[s].alive) =>
            /\ ~IsDown(down'[s], k) => ~Armed(timers', MoveRepeatEvent(ships[s], k))
            /\ (/\ IsHandle
                /\ Head(queue).type = MoveRepeatEvent(ships[s], k)
                /\ ~IsDown(down[s], k))
               => IF k \in RotateKeys THEN SameHeading(s)
                  ELSE ships'[s].vel = ships[s].vel]_vars

\* the other ship of the pair
Other(s) == CHOOSE o \in Ships : o # s

\* a step that is ship s's update, in which it met the other ship
IsResponse(s) == turn = s /\ turn' = s + 1 /\ overlap'[s] # NoCall

\* 20 * v = 4 * own + 15 * other on both axes: v = 0.2 * own + 0.75 * other
IsBlendOf(v, own, other) ==
    /\ 20 * v[1] = (4 * own[1]) + (15 * other[1])
    /\ 20 * v[2] = (4 * own[2]) + (15 * other[2])

\* C4: in a collision response both new velocities are the 0.2/0.75 blend of
\* the two velocities as they were before the response, on both axes.
C4_BlendFromOldVelocities ==
    [][\A s \in Ships :
         IsResponse(s) =>
            /\ IsBlendOf(ships'[s].vel, ships[s].vel, ships[Other(s)].vel)
            /\ IsBlendOf(ships'[Other(s)].vel, ships[Other(s)].vel, ships[s].vel)]_vars

\* the first ship's update has met the second, and the blend has left the two
\* with different, non-zero velocities
C4_Witness ==
    /\ turn = 2
    /\ overlap[1] # NoCall
    /\ ships[1].vel # ships[2].vel
    /\ ships[1].vel # <<0, 0>>
    /\ ships[2].vel # <<0, 0>>

\* the 0.2/0.75 blend of two velocities
BlendVel(own, other) == <<Blend(own[1], other[1]), Blend(own[2], other[2])>>

\* C5: after an update pass in which the update of each of two overlapping
\* ships met the other, the two velocities are the single 0.2/0.75 blend of
\* the velocities the ships had when the pass began.
C5_OneBlendPerPass ==
    (/\ turn = 3
     /\ colliderect(start[1], start[2])
     /\ overlap[1] # NoCall
     /\ overlap[2] # NoCall)
    => /\ ships[1].vel = BlendVel(start[1].vel, start[2].vel)
       /\ ships[2].vel = BlendVel(start[2].vel, start[1].vel)

\* the repeat event, the cooldown and the fire key of a weapon
FireRepeatEvent(sh, w) ==
    IF w = "phaser" THEN fire_phaser_repeat_event(sh) ELSE fire_torpedoes_repeat_event(sh)

Cooldown(w) == IF w = "phaser" THEN PHASER_FIRE_CD ELSE TORPEDO_FIRE_CD

FireKey(w) == IF w = "phaser" THEN K_q ELSE K_e

\* the weapon may add a projectile: the torpedo group is below the cap
BelowCap(sh, w) == w = "torpedo" => sh.torpedo_group < MAX_TORPEDOES_PER_SHIP

\* a step in which ship s is passed the repeat event of weapon w
IsFireRepeat(s, w) == IsHandle /\ Head(queue).type = FireRepeatEvent(ships[s], w)

\* C6: while an alive ship holds a fire key (it handled the key-down and not
\* yet the key-up) the weapon's repeat timer is armed with the weapon's
\* cooldown as its period and every repeat event creates a projectile (a
\* torpedo only below the cap); once it has handled the key-up the timer is
\* not armed and no repeat event creates a projectile until the next key-down.
C6_RefireOnlyWhileHeld ==
    [][\A s \in Ships : \A w \in Weapons :
         (ships[s].human /\ ships[s].alive) =>
            /\ IsDown(down'[s], FireKey(w))
                  => timers'[FireRepeatEvent(ships[s], w)].period = Cooldown(w)
            /\ ~IsDown(down'[s], FireKey(w))
                  => ~Armed(timers', FireRepeatEvent(ships[s], w))
            /\ (IsFireRepeat(s, w) /\ IsDown(down[s], FireKey(w)) /\ BelowCap(ships[s], w))
                  => w \in created'[s]
            /\ (IsFireRepeat(s, w) /\ ~IsDown(down[s], FireKey(w)))
                  => w \notin created'[s]]_vars

\* the rotate key the ship saw go down last among those it holds
LastRotate(dn) ==
    LET I == {i \in 1..Len(dn) : dn[i] \in RotateKeys}
    IN  dn[CHOOSE i \in I : \A j \in I : j <= i]

\* the heading change of a step, as an angle in [0, FULL_TURN)
Turn(s) == (ships'[s].ang - ships[s].ang) % FULL_TURN

\* the heading change of one increment of rotate key k (A: -22.5, D: +22.5)
Direction(k) == IF k = K_a THEN FULL_TURN - ROT_STEP ELSE ROT_STEP

\* C7: while an alive ship holds at least one rotate key, a rotate repeat
\* event turns it by one step in its key's direction if its key is the held
\* rotate key pressed last (the only one held, or the later of the two), and
\* does not turn it otherwise: the two directions never both apply.
C7_RotationLock ==
    [][\A s \in Ships : \A k \in RotateKeys :
         (/\ ships[s].human /\ ships[s].alive
          /\ IsHandle
          /\ Head(queue).type = MoveRepeatEvent(ships[s], k)
          /\ \E r \in RotateKeys : IsDown(down[s], r))
         => Turn(s) = IF k = LastRotate(down[s]) THEN Direction(k) ELSE 0]_vars

\* both rotate keys are held, D pressed last, and the ship handled D's repeat event
C7_Witness ==
    /\ ships[Human].alive
    /\ IsDown(down[Human], K_a) /\ IsDown(down[Human], K_d)
    /\ LastRotate(down[Human]) = K_d
    /\ handled.type = rotate_cw_repeat_event(ships[Human])

\* C8: a ship's phaser group never holds more than one phaser, and when the
\* ship has just fired the phaser (by key-down or by repeat event) it holds
\* exactly one: the new phaser replaced the one that was active.
C8_OnePhaser ==
    \A s \in Ships :
        /\ ships[s].phaser_group <= 1
        /\ "phaser" \in created[s] => ships[s].phaser_group = 1

\* a repeat event fired the phaser at a later tick than the key-down did
C8_Witness ==
    /\ handled.type = fire_phaser_repeat_event(ships[Human])
    /\ "phaser" \in created[Human]
    /\ ships[Human].phaser_group = 1
    /\ ships[Human].phaser_last_fired > 1

\* a step in which ship s is passed a fire-torpedo key-down or repeat event
IsTorpedoFire(s) ==
    /\ IsHandle
    /\ \/ Head(queue) = KeyEvent(KEYDOWN, K_e)
       \/ Head(queue).type = fire_torpedoes_repeat_event(ships[s])

\* C9: a fire-torpedo key-down or repeat event handled by an alive ship whose
\* torpedo group holds MAX_TORPEDOES_PER_SHIP torpedoes creates no torpedo
\* and leaves every field of the ship, torpedo_last_fired included, unchanged.
C9_SuppressedAtCap ==
    [][\A s \in Ships :
         (/\ ships[s].human /\ ships[s].alive
          /\ IsTorpedoFire(s)
          /\ ships[s].torpedo_group = MAX_TORPEDOES_PER_SHIP)
         => /\ ships'[s] = ships[s]
            /\ "torpedo" \notin created'[s]]_vars

\* the ship handled a fire-torpedo event with its group full, and created nothing
C9_Witness ==
    /\ ships[Human].alive
    /\ \/ handled = KeyEvent(KEYDOWN, K_e) /\ ~check_torpedo_on_cooldown(ships[Human], now)
       \/ handled.type = fire_torpedoes_repeat_event(ships[Human])
    /\ ships[Human].torpedo_group = MAX_TORPEDOES_PER_SHIP
    /\ created[Human] = {}

\* the tick weapon w of ship sh last fired
LastFired(sh, w) == IF w = "phaser" THEN sh.phaser_last_fired ELSE sh.torpedo_last_fired

\* the cooldown check of weapon w
OnCooldown(sh, w, t) ==
    IF w = "phaser" THEN check_phaser_on_cooldown(sh, t) ELSE check_torpedo_on_cooldown(sh, t)

\* weapon w of ship sh fired, and more than its cooldown has passed since
CooledDown(sh, w, t) == LastFired(sh, w) # None /\ t > LastFired(sh, w) + Cooldown(w)

\* C10: at every tick later than a weapon's last-fired tick plus its cooldown
\* the cooldown check of an alive ship reports not-on-cooldown, and a fire
\* key-down handled then creates a projectile (a torpedo only below the cap).
C10_CooldownEnds ==
    [][\A s \in Ships : \A w \in Weapons :
         (ships[s].human /\ ships[s].alive /\ CooledDown(ships[s], w, now))
         => /\ ~OnCooldown(ships[s], w, now)
            /\ (IsHandle /\ Head(queue) = KeyEvent(KEYDOWN, FireKey(w)) /\ BelowCap(ships[s], w))
                  => /\ w \in created'[s]
                     /\ LastFired(ships'[s], w) = now]_vars

\* the phaser fired, more than its cooldown has passed, and the ship is about
\* to handle the key-down of Q
C10_Witness ==
    /\ ships[Human].alive
    /\ CooledDown(ships[Human], "phaser", now)
    /\ queue # <<>>
    /\ Head(queue) = KeyEvent(KEYDOWN, K_q)

\* the movement keys
MoveKeys == RotateKeys \cup ThrustKeys

\* ship s after exactly one increment of movement key k, nothing else changed
Increment(sh, k) ==
    IF k = K_a THEN [sh EXCEPT !.ang = sh.ang - ROT_STEP, !.rotate_ccw_lock = TRUE]
    ELSE IF k = K_d THEN [sh EXCEPT !.ang = sh.ang + ROT_STEP, !.rotate_ccw_lock = FALSE]
    ELSE Thrust(sh)

\* the step applied at most one increment of key k to ship s: the velocity is
\* the old one or one unit vector of the heading further, the heading the old
\* one or one step further in the key's direction (as an angle)
AtMostOneIncrement(s, k) ==
    IF k \in RotateKeys
    THEN /\ ships'[s].vel = ships[s].vel
         /\ Turn(s) \in {0, Direction(k)}
    ELSE /\ SameHeading(s)
         /\ ships'[s].vel \in {ships[s].vel, Thrust(ships[s]).vel}

\* C11: a movement key-down handled by an alive ship applies exactly one
\* increment (A: heading one step down, D: one step up, S: velocity plus the
\* unit vector of the heading) and arms the key's repeat timer with period
\* MOVEMENT_TIME_DELAY_MS; a repeat event of that timer applies at most one
\* more increment of the same size.
C11_OneIncrementPerEvent ==
    [][\A s \in Ships : \A k \in MoveKeys :
         (ships[s].human /\ ships[s].alive /\ IsHandle) =>
            /\ Head(queue) = KeyEvent(KEYDOWN, k)
                  => /\ ships'[s] = Increment(ships[s], k)
                     /\ timers'[MoveRepeatEvent(ships[s], k)]
                           = [period |-> MOVEMENT_TIME_DELAY_MS,
                              left |-> MOVEMENT_TIME_DELAY_MS]
            /\ Head(queue).type = MoveRepeatEvent(ships[s], k)
                  => AtMostOneIncrement(s, k)]_vars

\* the ship, turned away from its start heading, handled the key-down of S:
\* it moves and the thrust timer runs
C11_Witness ==
    /\ ships[Human].alive
    /\ handled = KeyEvent(KEYDOWN, K_s)
    /\ ships[Human].ang % FULL_TURN # 0
    /\ ships[Human].vel # Px(0, 0)
    /\ Armed(timers, acc_repeat_event(ships[Human]))

\* the other weapon
OtherWeapon(w) == CHOOSE o \in Weapons : o # w

\* the projectile group of weapon w
GroupOf(sh, w) == IF w = "phaser" THEN sh.phaser_group ELSE sh.torpedo_group

\* the event is a fire key event or the repeat event of weapon w of ship sh
IsWeaponEvent(sh, w, ev) ==
    \/ ev = KeyEvent(KEYDOWN, FireKey(w))
    \/ ev = KeyEvent(KEYUP, FireKey(w))
    \/ ev.type = FireRepeatEvent(sh, w)

\* C12: an event of one weapon (its key-down, key-up or repeat event) handled
\* by an alive ship leaves the other weapon's last-fired tick and group
\* unchanged and creates no projectile of the other weapon; and a fire key-down
\* of a weapon that is not on cooldown (torpedo: below the cap) creates its
\* projectile whether or not the other weapon is on cooldown.
C12_WeaponsIndependent ==
    [][\A s \in Ships : \A w \in Weapons :
         (ships[s].human /\ ships[s].alive /\ IsHandle) =>
            /\ IsWeaponEvent(ships[s], w, Head(queue))
                  => /\ LastFired(ships'[s], OtherWeapon(w)) = LastFired(ships[s], OtherWeapon(w))
                     /\ GroupOf(ships'[s], OtherWeapon(w)) = GroupOf(ships[s], OtherWeapon(w))
                     /\ OtherWeapon(w) \notin created'[s]
            /\ (/\ Head(queue) = KeyEvent(KEYDOWN, FireKey(w))
                /\ ~OnCooldown(ships[s], w, now)
                /\ BelowCap(ships[s], w))
                  => w \in created'[s]]_vars

\* the key-down of Q fired the phaser while the torpedo was on cooldown
C12_Witness ==
    /\ ships[Human].alive
    /\ handled = KeyEvent(KEYDOWN, K_q)
    /\ "phaser" \in created[Human]
    /\ ships[Human].phaser_last_fired = now
    /\ ships[Human].torpedo_last_fired # None
    /\ ships[Human].torpedo_last_fired # now
    /\ check_torpedo_on_cooldown(ships[Human], now)

\* C13: the cooldown check of a weapon returns True exactly when the weapon
\* has fired (its last-fired tick is set, tick 0 included) and the ticks since
\* then are at most its cooldown, and False otherwise.
C13_CooldownCheckExact ==
    \A s \in Ships : \A w \in Weapons :
        OnCooldown(ships[s], w, now)
            <=> /\ LastFired(ships[s], w) # None
                /\ now - LastFired(ships[s], w) <= Cooldown(w)

\* the move of a coordinate on an axis: by v if the axis is reported to overlap
Nudge(flag, v) == IF flag THEN v ELSE 0

\* C14: in a collision response of ship s's update the other ship's position
\* moves, on each axis check_overlapping_sprites reports, by the other ship's
\* blended velocity on that axis, and stays on an axis not reported; the
\* position of ship s is the one its own movement gave it, untouched by the
\* response.
C14_OnlyOtherNudged ==
    [][\A s \in Ships :
         IsResponse(s) =>
            /\ ships'[Other(s)].pos[1]
                  = ships[Other(s)].pos[1] + Nudge(overlap'[s][1], ships'[Other(s)].vel[1])
            /\ ships'[Other(s)].pos[2]
                  = ships[Other(s)].pos[2] + Nudge(overlap'[s][2], ships'[Other(s)].vel[2])
            /\ ships'[s].pos = SpaceEntityUpdate(ships[s]).pos]_vars

\* the update of ship 1 met ship 2 with overlap reported on the x axis only:
\* ship 2, moving on both axes, was moved on x by its blended velocity
C14_Witness ==
    /\ turn = 2
    /\ overlap[1] = <<TRUE, FALSE>>
    /\ ships[2].vel[1] # 0 /\ ships[2].vel[2] # 0
    /\ ships[2].vel # start[2].vel
    /\ ships[2].pos = <<start[2].pos[1] + ships[2].vel[1], start[2].pos[2]>>

\* a step that is ship s's update
IsUpdate(s) == turn = s /\ turn' = s + 1

\* C15: the update of ship s leaves the torpedo of the group as it was, though
\* its rectangle may overlap the ship's; it leaves the other ship as it was
\* unless the rectangles of the two overlap; the collision pass never moves
\* ship s itself (its position is the one its own movement gave it); and with
\* no overlapping other ship, ship s keeps its velocity and last_collided_ship.
C15_CollisionFrame ==
    [][\A s \in Ships :
         IsUpdate(s) =>
            /\ torp' = torp
            /\ ships'[s].pos = SpaceEntityUpdate(ships[s]).pos
            /\ ~colliderect(SpaceEntityUpdate(ships[s]), ships[Other(s)])
                  => /\ ships'[Other(s)] = ships[Other(s)]
                     /\ ships'[s] = SpaceEntityUpdate(ships[s])]_vars

\* ship 1, moving, was updated with its rectangle over the torpedo's and clear
\* of ship 2's: no response took place
C15_Witness ==
    /\ turn = 2
    /\ overlap[1] = NoCall
    /\ colliderect(ships[1], torp)
    /\ ~colliderect(ships[1], ships[2])
    /\ ships[1].vel # Px(0, 0)
    /\ ships[1].pos # start[1].pos

\* C16: an event (key-down, key-up or repeat event) passed to a ship that is
\* not alive changes no field of the ship (heading, velocity, rotation lock,
\* last-fired ticks, projectile groups), creates no projectile and arms or
\* cancels no timer.
C16_DeadShipNoOp ==
    [][\A s \in Ships :
         (ships[s].human /\ ~ships[s].alive /\ IsHandle)
         => /\ ships'[s] = ships[s]
            /\ created'[s] = {}
            /\ timers' = timers]_vars

\* the dead ship was passed the key-up of E: the torpedo timer armed while it
\* was alive is still running
C16_Witness ==
    /\ ~ships[Human].alive
    /\ handled = KeyEvent(KEYUP, K_e)
    /\ Armed(timers, fire_torpedoes_repeat_event(ships[Human]))

\* the five repeat event ids of a human ship
RepeatEvents(sh) ==
    {rotate_cc_repeat_event(sh), rotate_cw_repeat_event(sh), acc_repeat_event(sh),
     fire_torpedoes_repeat_event(sh), fire_phaser_repeat_event(sh)}

\* C17: the five repeat event ids of a human ship are pairwise distinct and
\* none of them is an id of another human ship, so a repeat event of one
\* ship's timers, when handled, leaves every other alive human ship as it was
\* and creates no projectile for it.
C17_TimerIdsDisjoint ==
    [][\A s, o \in Ships :
         (/\ s # o
          /\ ships[s].human /\ ships[s].alive /\ ships[o].human
          /\ IsHandle
          /\ Head(queue).type \in RepeatEvents(ships[o]))
         => /\ Cardinality(RepeatEvents(ships[o])) = 5
            /\ Head(queue).type \notin RepeatEvents(ships[s])
            /\ ships'[s].vel = ships[s].vel
            /\ SameHeading(s)
            /\ created'[s] = {}]_vars

\* the event is a key-down or a repeat event of a rotate key of ship sh
IsRotateEvent(sh, ev) ==
    \E k \in RotateKeys : ev = KeyEvent(KEYDOWN, k) \/ ev.type = MoveRepeatEvent(sh, k)

\* C18: after an alive ship has handled a rotate key-down or a rotate repeat
\* event its heading is in [0, 360), i.e. in 0 .. FULL_TURN - 1 steps.
C18_HeadingNormalised ==
    \A s \in Ships :
        (ships[s].human /\ ships[s].alive /\ IsRotateEvent(ships[s], handled))
        => ships[s].ang >= 0 /\ ships[s].ang < FULL_TURN

====
